---- MODULE Spec2Model ----
(***************************************************************************)
(* websauna: CRUD traversal (system/crud/__init__.py), the admin root      *)
(* (system/admin/admin.py) and the user/group tables (system/user/models). *)
(***************************************************************************)
EXTENDS Integers, Sequences, FiniteSets, TLC

\* Largest primary key / uuid value a row of the managed model takes.
MaxId == 2

VARIABLES
    crud,      \* the CRUD collection: its class attributes and request
    store,     \* ids of the rows of the managed model
    frames     \* one call frame per request working on the collection

crudVars == <<crud, store, frames>>

VARIABLES
    registry,  \* subscribers of the AdminConstruction event, in delivery order
    admin      \* one Admin instance per request

adminVars == <<registry, admin>>

VARIABLES
    users,     \* ids of the rows of table "users"
    groups,    \* ids of the rows of table "group"
    usergroup, \* rows of table "usergroup", by primary key
    dbop       \* the last statement and its outcome

dbVars == <<users, groups, usergroup, dbop>>

vars == <<crud, store, frames, registry, admin, users, groups, usergroup, dbop>>

(***************************************************************************)
(* Path mapper (websauna.system.crud.urlmapper).  Path segments are         *)
(* sequences of characters.                                                 *)
(***************************************************************************)
IdSpace == 1..MaxId

DigitChars == <<"0", "1", "2", "3", "4", "5", "6", "7", "8", "9">>

SlugChars == <<"A", "B", "C", "D">>

CharIndex(chars, ch) == CHOOSE i \in 1..Len(chars) : chars[i] = ch

AllIn(p, chars) == \A i \in 1..Len(p) : \E j \in 1..Len(chars) : chars[j] = p[i]

RECURSIVE IntToStr(_)
IntToStr(n) ==
    IF n < Len(DigitChars)
    THEN <<DigitChars[n + 1]>>
    ELSE IntToStr(n \div Len(DigitChars)) \o <<DigitChars[(n % Len(DigitChars)) + 1]>>

RECURSIVE StrToInt(_)
StrToInt(p) ==
    IF Len(p) = 0
    THEN 0
    ELSE StrToInt(SubSeq(p, 1, Len(p) - 1)) * Len(DigitChars)
         + (CharIndex(DigitChars, p[Len(p)]) - 1)

\* Two characters of SlugChars, most significant first.
uuid_to_slug(k) ==
    <<SlugChars[(k \div Len(SlugChars)) + 1], SlugChars[(k % Len(SlugChars)) + 1]>>

slug_to_uuid(p) ==
    (CharIndex(SlugChars, p[1]) - 1) * Len(SlugChars) + (CharIndex(SlugChars, p[2]) - 1)

Mappers == {"Base64UUIDMapper", "IdMapper"}

\* mapper.get_path_from_object(obj); obj 0 is None, which has no identifying
\* attribute.
get_path_from_object(mapper, obj) ==
    IF obj = 0
    THEN [ok |-> FALSE, path |-> <<>>]
    ELSE [ok |-> TRUE,
          path |-> IF mapper = "IdMapper" THEN IntToStr(obj) ELSE uuid_to_slug(obj)]

\* mapper.get_id_from_path(path): the inverse of the encoding, MappingError
\* (ok = FALSE) on a path the encoding does not produce.
get_id_from_path(mapper, path) ==
    IF mapper = "IdMapper"
    THEN IF Len(path) > 0 /\ AllIn(path, DigitChars) /\ IntToStr(StrToInt(path)) = path
         THEN [ok |-> TRUE, id |-> StrToInt(path)]
         ELSE [ok |-> FALSE, id |-> 0]
    ELSE IF Len(path) = Len(uuid_to_slug(0)) /\ AllIn(path, SlugChars)
         THEN [ok |-> TRUE, id |-> slug_to_uuid(path)]
         ELSE [ok |-> FALSE, id |-> 0]

\* mapper.is_id(path): does the segment have the shape of an encoded id.
is_id(mapper, path) == get_id_from_path(mapper, path).ok

Listing == <<"l", "i", "s", "t", "i", "n", "g">>

Segments ==
    {IntToStr(i) : i \in 1..MaxId + 1}
    \cup {uuid_to_slug(i) : i \in 1..MaxId + 1}
    \cup {Listing, <<"a", "d", "d">>, <<"0", "1">>, <<>>}

\* Objects handed to the collection: None (0) or a model instance, stored or
\* not.
Objects == 0..MaxId

ViewNames == {"", "show"}

(***************************************************************************)
(* Resource and CRUD (system/crud/__init__.py).                             *)
(***************************************************************************)
Requests == {"r1", "r2"}

NoInst == [exists |-> FALSE, obj |-> 0, lineage |-> FALSE, parent |-> "", name |-> <<>>]

NoResult == [kind |-> "none", inst |-> NoInst, view |-> ""]

NoProbe == [method |-> "", kind |-> "none", path |-> <<>>, obj |-> 0]

Idle ==
    [op |-> "", seg |-> <<>>, argobj |-> 0, view |-> "", pc |-> "idle",
     id |-> 0, obj |-> 0, inst |-> NoInst, path |-> <<>>,
     result |-> NoResult, calls |-> <<>>, probe |-> NoProbe]

Ops == {"getitem", "traverse_to_object", "wrap_to_resource", "get_object_url",
        "make_resource"}

\* The frame of a call at its entry.
Enter(op, seg, obj, view) ==
    [Idle EXCEPT
        !.op = op,
        !.seg = IF op \in {"getitem", "traverse_to_object"} THEN seg ELSE <<>>,
        !.argobj = IF op \in {"getitem", "traverse_to_object"} THEN 0 ELSE obj,
        !.obj = IF op \in {"getitem", "traverse_to_object"} THEN 0 ELSE obj,
        !.view = IF op = "get_object_url" THEN view ELSE "",
        !.pc = CASE op = "getitem" -> "getitem"
                 [] op = "traverse_to_object" -> "get_id"
                 [] OTHER -> "make_resource"]

Raise(f, kind) ==
    [f EXCEPT !.pc = "done", !.result = [kind |-> kind, inst |-> NoInst, view |-> ""]]

Return(f, kind, inst) ==
    [f EXCEPT !.pc = "done", !.result = [kind |-> kind, inst |-> inst, view |-> f.view]]

Log(f, call) == [f EXCEPT !.calls = Append(@, call)]

\* Resource.__init__(obj): no __parent__, no __name__.
Resource(obj) ==
    [exists |-> TRUE, obj |-> obj, lineage |-> FALSE, parent |-> "", name |-> <<>>]

\* Resource.make_lineage(parent, child, name)
make_lineage(parent, child, name) ==
    [child EXCEPT !.lineage = TRUE, !.parent = parent, !.name = name]

\* Mutant of CRUD.__getitem__: resolves every segment, whatever is_id says.
CRUD_getitem_unguarded(cr, st, f) ==
    [f |-> [Log(f, "is_id") EXCEPT !.pc = "get_id"], crud |-> cr]

\* CRUD.__getitem__
CRUD_getitem(cr, st, f) ==
    IF is_id(cr.mapper, f.seg)
    THEN [f |-> [Log(f, "is_id") EXCEPT !.pc = "get_id"], crud |-> cr]
    ELSE [f |-> Raise(Log(f, "is_id"), "KeyError"), crud |-> cr]

\* CRUD.traverse_to_object, id = self.mapper.get_id_from_path(path)
traverse_get_id(cr, st, f) ==
    LET got == get_id_from_path(cr.mapper, f.seg)
        g == Log(f, "get_id_from_path")
    IN  IF got.ok
        THEN [f |-> [g EXCEPT !.id = got.id, !.pc = "fetch"], crud |-> cr]
        ELSE [f |-> Raise(g, "MappingError"), crud |-> cr]

\* CRUD.fetch_object of a storage-backed subclass
fetch_object(st, id) ==
    IF id \in st THEN [found |-> TRUE, obj |-> id] ELSE [found |-> FALSE, obj |-> 0]

\* Mutant of the fetch in traverse_to_object: a miss is swallowed and None is
\* wrapped.
traverse_fetch_unchecked(cr, st, f) ==
    [f |-> [Log(f, "fetch_object") EXCEPT !.obj = fetch_object(st, f.id).obj,
                                          !.pc = "make_resource"],
     crud |-> cr]

\* CRUD.traverse_to_object, obj = self.fetch_object(id)
traverse_fetch(cr, st, f) ==
    LET got == fetch_object(st, f.id)
        g == Log(f, "fetch_object")
    IN  IF got.found
        THEN [f |-> [g EXCEPT !.obj = got.obj, !.pc = "make_resource"], crud |-> cr]
        ELSE [f |-> Raise(g, "NotFound"), crud |-> cr]

\* Mutant of CRUD.make_resource: without a Resource class the object is
\* wrapped in the module's Resource instead of raising.
make_resource_default(cr, st, f) ==
    LET g == Log(f, "make_resource")
    IN  IF f.op = "make_resource"
        THEN [f |-> Return(g, "Resource", Resource(f.obj)), crud |-> cr]
        ELSE [f |-> [g EXCEPT !.inst = Resource(f.obj), !.pc = "path"], crud |-> cr]

\* CRUD.make_resource
make_resource(cr, st, f) ==
    LET g == Log(f, "make_resource")
    IN  IF cr.hasResource
        THEN IF f.op = "make_resource"
             THEN [f |-> Return(g, "Resource", Resource(f.obj)), crud |-> cr]
             ELSE [f |-> [g EXCEPT !.inst = Resource(f.obj), !.pc = "path"], crud |-> cr]
        ELSE [f |-> Raise(g, "NotImplementedError"), crud |-> cr]

\* Mutant of the path computation in wrap_to_resource: the path is kept on the
\* collection.
wrap_path_stash(cr, st, f) ==
    LET got == get_path_from_object(cr.mapper, f.obj)
        g == Log(f, "get_path_from_object")
    IN  IF got.ok
        THEN [f |-> [g EXCEPT !.path = got.path, !.pc = "lineage"],
              crud |-> [cr EXCEPT !.title = got.path]]
        ELSE [f |-> Raise(g, "MappingError"), crud |-> cr]

\* CRUD.wrap_to_resource, path = self.mapper.get_path_from_object(obj) and the
\* assertion on its type
wrap_path(cr, st, f) ==
    LET got == get_path_from_object(cr.mapper, f.obj)
        g == Log(f, "get_path_from_object")
    IN  IF got.ok
        THEN [f |-> [g EXCEPT !.path = got.path, !.pc = "lineage"], crud |-> cr]
        ELSE [f |-> Raise(g, "MappingError"), crud |-> cr]

\* Mutant of the end of wrap_to_resource: make_lineage is not called.
wrap_lineage_unset(cr, st, f) ==
    IF f.op = "get_object_url"
    THEN [f |-> [f EXCEPT !.pc = "url"], crud |-> cr]
    ELSE [f |-> Return(f, "Resource", f.inst), crud |-> cr]

\* CRUD.wrap_to_resource, instance.make_lineage(self, instance, path); return
wrap_lineage(cr, st, f) ==
    LET inst == make_lineage(cr.name, f.inst, f.path)
    IN  IF f.op = "get_object_url"
        THEN [f |-> [f EXCEPT !.inst = inst, !.pc = "url"], crud |-> cr]
        ELSE [f |-> Return([f EXCEPT !.inst = inst], "Resource", inst), crud |-> cr]

\* CRUD.get_object_url, self.request.resource_url(res[, view_name])
get_object_url(cr, st, f) ==
    [f |-> Return(f, "url", f.inst), crud |-> cr]

\* One step of the call in frame f.
Step(cr, st, f) ==
    CASE f.pc = "getitem" -> CRUD_getitem(cr, st, f)
      [] f.pc = "get_id" -> traverse_get_id(cr, st, f)
      [] f.pc = "fetch" -> traverse_fetch(cr, st, f)
      [] f.pc = "make_resource" -> make_resource(cr, st, f)
      [] f.pc = "path" -> wrap_path(cr, st, f)
      [] f.pc = "lineage" -> wrap_lineage(cr, st, f)
      [] f.pc = "url" -> get_object_url(cr, st, f)

\* The call in frame f run to its end without interruption.
RECURSIVE Run(_, _, _)
Run(cr, st, f) ==
    IF f.pc = "done"
    THEN [f |-> f, crud |-> cr]
    ELSE LET s == Step(cr, st, f) IN Run(s.crud, st, s.f)

\* Mutant of Resource.get_path: no assertion on __parent__, the path is
\* computed with the default mapper.
Resource_get_path_unasserted(cr, inst) ==
    LET got == get_path_from_object(cr.mapper, inst.obj)
    IN  IF got.ok
        THEN [method |-> "get_path", kind |-> "value", path |-> got.path, obj |-> 0]
        ELSE [method |-> "get_path", kind |-> "MappingError", path |-> <<>>, obj |-> 0]

\* Resource.get_path / Resource.get_title / Resource.get_object
Resource_get_path(cr, inst) ==
    IF ~inst.lineage
    THEN [method |-> "get_path", kind |-> "AssertionError", path |-> <<>>, obj |-> 0]
    ELSE LET got == get_path_from_object(cr.mapper, inst.obj)
         IN  IF got.ok
             THEN [method |-> "get_path", kind |-> "value", path |-> got.path, obj |-> 0]
             ELSE [method |-> "get_path", kind |-> "MappingError", path |-> <<>>, obj |-> 0]

Resource_get_title(cr, inst) ==
    [Resource_get_path(cr, inst) EXCEPT !.method = "get_title"]

Resource_get_object(cr, inst) ==
    [method |-> "get_object", kind |-> "value", path |-> <<>>, obj |-> inst.obj]

CrudConfigs ==
    [name : {"crud"}, mapper : Mappers, hasResource : BOOLEAN,
     title : {<<"x", "x">>}, singular_name : {"item"}, plural_name : {"items"},
     request : {"startup"}]

CrudInit ==
    /\ crud \in CrudConfigs
    /\ store \in SUBSET IdSpace
    /\ frames = [r \in Requests |-> Idle]

\* A request calls an operation of the collection; the call runs to its end.
Call(r) ==
    /\ \A q \in Requests : frames[q].pc = "idle"
    /\ \E op \in Ops, seg \in Segments, obj \in Objects, view \in ViewNames :
          LET s == Run(crud, store, Enter(op, seg, obj, view))
          IN  /\ frames' = [frames EXCEPT ![r] = s.f]
              /\ crud' = s.crud
    /\ UNCHANGED store

\* The request uses the Resource it was given.
Probe(r) ==
    /\ frames[r].pc = "done"
    /\ frames[r].result.kind = "Resource"
    /\ frames[r].probe.kind = "none"
    /\ \E m \in {"get_path", "get_title", "get_object"} :
          frames' = [frames EXCEPT ![r].probe =
              CASE m = "get_path" -> Resource_get_path(crud, frames[r].result.inst)
                [] m = "get_title" -> Resource_get_title(crud, frames[r].result.inst)
                [] OTHER -> Resource_get_object(crud, frames[r].result.inst)]
    /\ UNCHANGED <<crud, store>>

\* The request ends; its Resource is discarded.
EndRequest(r) ==
    /\ frames[r].pc = "done"
    /\ frames' = [frames EXCEPT ![r] = Idle]
    /\ UNCHANGED <<crud, store>>

\* A request enters an operation of the shared collection.
Begin(r) ==
    /\ frames[r].pc = "idle"
    /\ \E op \in Ops, seg \in Segments, obj \in Objects, view \in ViewNames :
          frames' = [frames EXCEPT ![r] = Enter(op, seg, obj, view)]
    /\ UNCHANGED <<crud, store>>

\* The request's call advances by one statement.
Advance(r) ==
    /\ frames[r].pc \notin {"idle", "done"}
    /\ LET s == Step(crud, store, frames[r])
       IN  /\ frames' = [frames EXCEPT ![r] = s.f]
           /\ crud' = s.crud
    /\ UNCHANGED store

(***************************************************************************)
(* Admin (system/admin/admin.py).                                           *)
(***************************************************************************)
\* Operations performed on one Admin instance after its construction.
MaxOps == 2

AdminRequests == {"a1", "a2"}

\* Models whose admin is contributed by a subscriber of AdminConstruction.
Models == {"user", "group"}

Names == Models \cup {"listing"}

Registries ==
    {<<>>} \cup {<<m>> : m \in Models}
    \cup ({<<m, n>> : m, n \in Models} \ {<<m, m>> : m \in Models})

NoEntry == [exists |-> FALSE, id |-> "", submenu |-> <<>>, data |-> <<>>]

NoChild == [model |-> "", owner |-> ""]

NoObject == [none |-> TRUE, truth |-> FALSE, model |-> ""]

\* obj of get_admin_object_url: None, or a model instance with its truth value
\* (an instance is false when its class defines __bool__ or __len__ so).
AdminObjects == {NoObject} \cup [none : {FALSE}, truth : BOOLEAN, model : Models]

NoLast ==
    [op |-> "", kind |-> "none", name |-> "", child |-> NoChild, resolved |-> FALSE,
     obj |-> NoObject, view |-> "", menu |-> NoEntry]

Absent ==
    [pc |-> "absent", parent |-> "", name |-> "", children |-> << >>,
     admin_menu_entry |-> NoEntry, quick_menu_entry |-> NoEntry,
     notified |-> 0, constructs |-> 0, nops |-> 0, last |-> NoLast]

\* Admin.construct_default_menu
construct_default_menu(a) ==
    [a EXCEPT
        !.admin_menu_entry =
            [exists |-> TRUE, id |-> "admin-menu-navbar",
             submenu |-> <<"admin-menu-home", "admin-menu-data">>, data |-> <<>>],
        !.quick_menu_entry =
            [exists |-> TRUE, id |-> "admin-menu-quick",
             submenu |-> <<"admin-quick-menu-home">>, data |-> <<>>]]

\* Mutant of Admin.__init__: construct() is not called.
Admin_init_unconstructed(a) ==
    [a EXCEPT
        !.pc = "ready", !.parent = "Root", !.name = "admin",
        !.admin_menu_entry = NoEntry, !.quick_menu_entry = NoEntry,
        !.children = << >>]

\* Admin.__init__ up to its call of construct()
Admin_init(a) ==
    [a EXCEPT
        !.pc = "construct", !.parent = "Root", !.name = "admin",
        !.admin_menu_entry = NoEntry, !.quick_menu_entry = NoEntry,
        !.children = << >>]

\* Admin.construct, up to the notification
Admin_construct(a) ==
    [construct_default_menu(a) EXCEPT !.pc = "notify", !.constructs = @ + 1]

\* One subscriber of AdminConstruction: registers its model admin as a child
\* and appends its entry to the Data submenu.
subscriber(a, r, m) ==
    [a EXCEPT
        !.children = @ @@ (m :> [model |-> m, owner |-> r]),
        !.admin_menu_entry.data = Append(@, m),
        !.notified = @ + 1]

\* Mutant of Admin.__getitem__: children.get(name), None for a missing name.
Admin_getitem_fallback(a, name) ==
    [NoLast EXCEPT !.op = "getitem", !.name = name, !.kind = "value",
                   !.child = IF name \in DOMAIN a.children
                             THEN a.children[name] ELSE NoChild]

\* Admin.__getitem__
Admin_getitem(a, name) ==
    IF name \in DOMAIN a.children
    THEN [NoLast EXCEPT !.op = "getitem", !.name = name, !.kind = "value",
                        !.child = a.children[name]]
    ELSE [NoLast EXCEPT !.op = "getitem", !.name = name, !.kind = "KeyError"]

\* Admin.get_admin_resource: the resource of obj under its model's admin
get_admin_resource(a, obj) ==
    IF obj.model \in DOMAIN a.children
    THEN [found |-> TRUE, child |-> a.children[obj.model]]
    ELSE [found |-> FALSE, child |-> NoChild]

\* Admin.get_admin_object_url
get_admin_object_url(a, obj, view_name) ==
    IF ~obj.truth
    THEN [NoLast EXCEPT !.op = "get_admin_object_url", !.kind = "None", !.obj = obj]
    ELSE LET res == get_admin_resource(a, obj)
         IN  IF res.found
             THEN [NoLast EXCEPT !.op = "get_admin_object_url", !.kind = "url",
                                 !.obj = obj, !.resolved = TRUE, !.child = res.child,
                                 !.view = view_name]
             ELSE [NoLast EXCEPT !.op = "get_admin_object_url", !.kind = "NoAdmin",
                                 !.obj = obj, !.resolved = TRUE]

\* Admin.get_quick_menu_entry / get_admin_menu_entry (and the submenu getters)
get_menu_entry(a, which) ==
    [NoLast EXCEPT !.op = which, !.kind = "value",
                   !.menu = IF which = "get_quick_menu_entry"
                            THEN a.quick_menu_entry ELSE a.admin_menu_entry]

AdminInit ==
    /\ registry \in Registries
    /\ admin = [r \in AdminRequests |-> Absent]

\* Traversal of /admin starts: Admin(request) sets its fields.
NewAdmin(r) ==
    /\ admin[r].pc = "absent"
    /\ admin' = [admin EXCEPT ![r] = Admin_init(@)]
    /\ UNCHANGED registry

Construct(r) ==
    /\ admin[r].pc = "construct"
    /\ admin' = [admin EXCEPT ![r] = Admin_construct(@)]
    /\ UNCHANGED registry

\* registry.notify(AdminConstruction(self)): the next subscriber runs.
Notify(r) ==
    /\ admin[r].pc = "notify"
    /\ admin[r].notified < Len(registry)
    /\ admin' = [admin EXCEPT ![r] = subscriber(@, r, registry[admin[r].notified + 1])]
    /\ UNCHANGED registry

\* notify, construct and __init__ return: the instance is handed to the host.
Constructed(r) ==
    /\ admin[r].pc = "notify"
    /\ admin[r].notified = Len(registry)
    /\ admin' = [admin EXCEPT ![r].pc = "ready"]
    /\ UNCHANGED registry

GetItem(r) ==
    /\ admin[r].pc = "ready"
    /\ admin[r].nops < MaxOps
    /\ \E n \in Names :
          admin' = [admin EXCEPT ![r].last = Admin_getitem(admin[r], n), ![r].nops = @ + 1]
    /\ UNCHANGED registry

GetMenu(r) ==
    /\ admin[r].pc = "ready"
    /\ admin[r].nops < MaxOps
    /\ \E w \in {"get_quick_menu_entry", "get_admin_menu_entry"} :
          admin' = [admin EXCEPT ![r].last = get_menu_entry(admin[r], w), ![r].nops = @ + 1]
    /\ UNCHANGED registry

GetAdminObjectUrl(r) ==
    /\ admin[r].pc = "ready"
    /\ admin[r].nops < MaxOps
    /\ \E obj \in AdminObjects, v \in ViewNames :
          admin' = [admin EXCEPT ![r].last = get_admin_object_url(admin[r], obj, v),
                                 ![r].nops = @ + 1]
    /\ UNCHANGED registry

(***************************************************************************)
(* users, group, usergroup (system/user/models.py).                         *)
(***************************************************************************)
MaxUsers == 2

MaxGroups == 2

MaxRows == 2

UserIds == 1..MaxUsers

GroupIds == 1..MaxGroups

RowIds == 1..MaxRows

\* A foreign-key column is nullable: 0 is NULL.
NoOp == [op |-> "", id |-> 0, ok |-> TRUE, cascaded |-> 0]

Referencing(col, id) == {k \in DOMAIN usergroup : usergroup[k][col] = id}

Without(rows, ks) == [k \in DOMAIN rows \ ks |-> rows[k]]

\* UserGroup.user_id: ForeignKey(users.id, onupdate CASCADE, ondelete CASCADE)
user_id_fk(uid) == uid = 0 \/ uid \in users

\* UserGroup.group_id: ForeignKey(group.id)
group_id_fk(gid) == gid = 0 \/ gid \in groups

\* Mutant of UserGroup.user_id: a plain Integer column, no foreign key.
delete_user_orphans(u) == usergroup

\* DELETE FROM users: ondelete='CASCADE' removes the referencing usergroup rows.
delete_user(u) == Without(usergroup, Referencing("user_id", u))

\* DELETE of a Group whose users collection is loaded: the unit of work deletes
\* its rows of the secondary table.
delete_group_loaded(g) == Without(usergroup, Referencing("group_id", g))

DbInit ==
    /\ users = {}
    /\ groups = {}
    /\ usergroup = << >>
    /\ dbop = NoOp

CreateUser ==
    \E u \in UserIds \ users :
        /\ users' = users \cup {u}
        /\ dbop' = [NoOp EXCEPT !.op = "create_user", !.id = u]
        /\ UNCHANGED <<groups, usergroup>>

CreateGroup ==
    \E g \in GroupIds \ groups :
        /\ groups' = groups \cup {g}
        /\ dbop' = [NoOp EXCEPT !.op = "create_group", !.id = g]
        /\ UNCHANGED <<users, usergroup>>

\* INSERT INTO usergroup: rejected (IntegrityError) when a foreign key fails.
CreateUserGroup ==
    \E k \in RowIds \ DOMAIN usergroup, uid \in {0} \cup UserIds, gid \in {0} \cup GroupIds :
        IF user_id_fk(uid) /\ group_id_fk(gid)
        THEN /\ usergroup' = usergroup @@ (k :> [user_id |-> uid, group_id |-> gid])
             /\ dbop' = [NoOp EXCEPT !.op = "create_usergroup", !.id = k]
             /\ UNCHANGED <<users, groups>>
        ELSE /\ dbop' = [NoOp EXCEPT !.op = "create_usergroup", !.id = k, !.ok = FALSE]
             /\ UNCHANGED <<users, groups, usergroup>>

DeleteUser ==
    \E u \in users :
        /\ users' = users \ {u}
        /\ usergroup' = delete_user(u)
        /\ dbop' = [NoOp EXCEPT !.op = "delete_user", !.id = u,
                                !.cascaded = Cardinality(Referencing("user_id", u))]
        /\ UNCHANGED groups

\* Group.users is passive_deletes: an unloaded collection is left to the
\* database, whose group_id key has no ON DELETE rule and rejects the delete
\* while rows reference the group.
DeleteGroup ==
    \E g \in groups :
        \/ /\ groups' = groups \ {g}
           /\ usergroup' = delete_group_loaded(g)
           /\ dbop' = [NoOp EXCEPT !.op = "delete_group", !.id = g,
                                   !.cascaded = Cardinality(Referencing("group_id", g))]
           /\ UNCHANGED users
        \/ /\ Referencing("group_id", g) # {}
           /\ dbop' = [NoOp EXCEPT !.op = "delete_group", !.id = g, !.ok = FALSE]
           /\ UNCHANGED <<users, groups, usergroup>>

DeleteUserGroup ==
    \E k \in DOMAIN usergroup :
        /\ usergroup' = Without(usergroup, {k})
        /\ dbop' = [NoOp EXCEPT !.op = "delete_usergroup", !.id = k]
        /\ UNCHANGED <<users, groups>>

(***************************************************************************)
(* Specifications.                                                          *)
(***************************************************************************)
\* The parts a specification leaves alone stay as configured here.
CrudOff ==
    /\ crud = [name |-> "crud", mapper |-> "Base64UUIDMapper", hasResource |-> TRUE,
               title |-> <<"x", "x">>, singular_name |-> "item", plural_name |-> "items",
               request |-> "startup"]
    /\ store = {}
    /\ frames = [r \in Requests |-> Idle]

AdminOff ==
    /\ registry = <<>>
    /\ admin = [r \in AdminRequests |-> Absent]

Init == CrudInit /\ AdminOff /\ DbInit

\* Requests on the collection, one call at a time.
Next ==
    \/ \E r \in Requests : Call(r) /\ UNCHANGED <<adminVars, dbVars>>
    \/ \E r \in Requests : Probe(r) /\ UNCHANGED <<adminVars, dbVars>>
    \/ \E r \in Requests : EndRequest(r) /\ UNCHANGED <<adminVars, dbVars>>

Spec == Init /\ [][Next]_vars

\* Requests on the shared collection, interleaved statement by statement.
NextConc ==
    \/ \E r \in Requests : Begin(r) /\ UNCHANGED <<adminVars, dbVars>>
    \/ \E r \in Requests : Advance(r) /\ UNCHANGED <<adminVars, dbVars>>
    \/ \E r \in Requests : EndRequest(r) /\ UNCHANGED <<adminVars, dbVars>>

SpecConc == Init /\ [][NextConc]_vars

NextAdmin ==
    \/ \E r \in AdminRequests : NewAdmin(r) /\ UNCHANGED <<crudVars, dbVars>>
    \/ \E r \in AdminRequests : Construct(r) /\ UNCHANGED <<crudVars, dbVars>>
    \/ \E r \in AdminRequests : Notify(r) /\ UNCHANGED <<crudVars, dbVars>>
    \/ \E r \in AdminRequests : Constructed(r) /\ UNCHANGED <<crudVars, dbVars>>
    \/ \E r \in AdminRequests : GetItem(r) /\ UNCHANGED <<crudVars, dbVars>>
    \/ \E r \in AdminRequests : GetMenu(r) /\ UNCHANGED <<crudVars, dbVars>>
    \/ \E r \in AdminRequests : GetAdminObjectUrl(r) /\ UNCHANGED <<crudVars, dbVars>>

InitAdmin == CrudOff /\ AdminInit /\ DbInit

SpecAdmin == InitAdmin /\ [][NextAdmin]_vars

NextDb ==
    \/ CreateUser /\ UNCHANGED <<crudVars, adminVars>>
    \/ CreateGroup /\ UNCHANGED <<crudVars, adminVars>>
    \/ CreateUserGroup /\ UNCHANGED <<crudVars, adminVars>>
    \/ DeleteUser /\ UNCHANGED <<crudVars, adminVars>>
    \/ DeleteGroup /\ UNCHANGED <<crudVars, adminVars>>
    \/ DeleteUserGroup /\ UNCHANGED <<crudVars, adminVars>>

InitDb == CrudOff /\ AdminOff /\ DbInit

SpecDb == InitDb /\ [][NextDb]_vars

(***************************************************************************)
(* Properties.                                                              *)
(***************************************************************************)
Made(f, call) == \E i \in 1..Len(f.calls) : f.calls[i] = call

Finished(r, ops) == frames[r].pc = "done" /\ frames[r].op \in ops

\* The stored object a segment is the path of, if any.
StoredAt(seg) == {o \in store : get_path_from_object(crud.mapper, o).path = seg}

\* The segment is accepted as an id and resolves to no stored object.
Unresolved(seg) ==
    /\ is_id(crud.mapper, seg)
    /\ \/ ~get_id_from_path(crud.mapper, seg).ok
       \/ ~fetch_object(store, get_id_from_path(crud.mapper, seg).id).found

\* C1: collection[s] for a segment s that mapper.is_id rejects raises KeyError
\* ("not mine") without calling mapper.get_id_from_path or fetch_object; the
\* segment "listing" is declined whenever the mapper encodes no object to it.
C1_NotMine ==
    \A r \in Requests :
        Finished(r, {"getitem"}) =>
            /\ ~is_id(crud.mapper, frames[r].seg) =>
                  /\ frames[r].result.kind = "KeyError"
                  /\ ~Made(frames[r], "get_id_from_path")
                  /\ ~Made(frames[r], "fetch_object")
                  /\ ~Made(frames[r], "make_resource")
            /\ (/\ frames[r].seg = Listing
                /\ \A o \in Objects \ {0} :
                      get_path_from_object(crud.mapper, o).path # Listing) =>
                  frames[r].result.kind = "KeyError"

C1_Witness ==
    \E r \in Requests :
        /\ Finished(r, {"getitem"})
        /\ frames[r].seg = Listing
        /\ frames[r].result.kind = "KeyError"

Wraps(res, o, p) ==
    /\ res.kind = "Resource"
    /\ res.inst.exists
    /\ res.inst.obj = o
    /\ res.inst.lineage
    /\ res.inst.parent = crud.name
    /\ res.inst.name = p

RoundTrip(r) ==
    /\ Finished(r, {"getitem", "traverse_to_object"}) =>
          \A o \in StoredAt(frames[r].seg) :
              /\ Wraps(frames[r].result, o, frames[r].seg)
              /\ frames[r].probe.method = "get_path" =>
                    (frames[r].probe.kind = "value" /\ frames[r].probe.path = frames[r].seg)
              /\ frames[r].probe.method = "get_object" => frames[r].probe.obj = o
    /\ (Finished(r, {"wrap_to_resource"}) /\ frames[r].argobj # 0) =>
          LET p == get_path_from_object(crud.mapper, frames[r].argobj).path
          IN  /\ Wraps(frames[r].result, frames[r].argobj, p)
              /\ frames[r].probe.method = "get_path" =>
                    (frames[r].probe.kind = "value" /\ frames[r].probe.path = p)

\* C3, as claimed: for every stored object o with p = get_path_from_object(o),
\* traverse_to_object(p) and collection[p] return a Resource wrapping o whose
\* parent is the collection, whose name is p and whose get_path() is p; the
\* same holds for wrap_to_resource(o).
C3_Claimed == \A r \in Requests : RoundTrip(r)

\* C3, amended: the same, for a collection that supplies a Resource class.
C3_RoundTrip == crud.hasResource => \A r \in Requests : RoundTrip(r)

C3_Witness ==
    \E r \in Requests :
        /\ Finished(r, {"getitem"})
        /\ StoredAt(frames[r].seg) # {}
        /\ frames[r].result.kind = "Resource"
        /\ frames[r].probe.method = "get_path"
        /\ frames[r].probe.path = frames[r].seg

\* C4: get_path() and get_title() of a Resource whose lineage was never set
\* raise a precondition failure; they return a value only with lineage set.
C4_Lineage ==
    \A r \in Requests :
        frames[r].probe.method \in {"get_path", "get_title"} =>
            /\ ~frames[r].result.inst.lineage => frames[r].probe.kind = "AssertionError"
            /\ frames[r].probe.kind = "value" => frames[r].result.inst.lineage

C4_Witness ==
    \E r \in Requests :
        /\ frames[r].op = "make_resource"
        /\ frames[r].probe.method = "get_title"
        /\ ~frames[r].result.inst.lineage
        /\ frames[r].probe.kind = "AssertionError"

\* The result a call gives when it runs alone on the collection.
Alone(f) == Run(crud, store, Enter(f.op, f.seg, f.argobj, f.view)).f

\* C7: under any interleaving of the requests' calls no field of the
\* collection (its mapper included) changes, and each call ends with the
\* result it gives when run alone.
C7_Stateless ==
    [][/\ crud' = crud
       /\ \A r \in Requests :
             frames'[r].pc = "done" =>
                 /\ frames'[r].result = Alone(frames'[r]).result
                 /\ frames'[r].calls = Alone(frames'[r]).calls]_vars

C7_Witness ==
    /\ frames["r1"].pc = "done"
    /\ frames["r1"].result.kind = "Resource"
    /\ frames["r2"].pc = "lineage"
    /\ frames["r2"].path # frames["r1"].result.inst.name

\* C8, as claimed: no request-time operation is the point at which a missing
\* Resource class is detected.
C8_Claimed ==
    \A r \in Requests : frames[r].pc = "done" => frames[r].result.kind # "NotImplementedError"

\* C8, amended: a collection without a Resource class is constructed without
\* error and the missing class is detected at request time, by make_resource:
\* a call raises NotImplementedError exactly when the collection has no
\* Resource class and the call reaches make_resource.
C8_RequestTime ==
    \A r \in Requests :
        frames[r].pc = "done" =>
            (frames[r].result.kind = "NotImplementedError"
                <=> (~crud.hasResource /\ Made(frames[r], "make_resource")))

C8_Witness ==
    \E r \in Requests :
        /\ Finished(r, {"getitem"})
        /\ ~crud.hasResource
        /\ StoredAt(frames[r].seg) # {}
        /\ frames[r].result.kind = "NotImplementedError"

MenusBuilt(a) == a.admin_menu_entry.exists /\ a.quick_menu_entry.exists

\* C5: an Admin instance runs construct() once; it becomes ready only with both
\* menu trees built and every subscriber notified (after the menus were built);
\* child lookups and menu queries happen only on a ready instance; once ready,
\* the instance stays ready and its menus and children are never rebuilt.
C5_OneShot ==
    [][\A r \in AdminRequests :
          /\ admin[r].pc = "ready" =>
                /\ admin'[r].pc = "ready"
                /\ admin'[r].children = admin[r].children
                /\ admin'[r].admin_menu_entry = admin[r].admin_menu_entry
                /\ admin'[r].quick_menu_entry = admin[r].quick_menu_entry
                /\ admin'[r].constructs = admin[r].constructs
          /\ (admin[r].pc # "ready" /\ admin'[r].pc = "ready") =>
                /\ MenusBuilt(admin'[r])
                /\ admin'[r].constructs = 1
                /\ admin'[r].notified = Len(registry)
                /\ DOMAIN admin'[r].children = {registry[i] : i \in 1..Len(registry)}
                /\ admin'[r].admin_menu_entry.data = registry
          /\ admin'[r].notified # admin[r].notified => MenusBuilt(admin[r])
          /\ admin'[r].nops # admin[r].nops => admin[r].pc = "ready"]_vars

C5_Witness ==
    \E r \in AdminRequests :
        /\ admin[r].pc = "ready"
        /\ admin[r].notified = Cardinality(Models)
        /\ admin[r].nops > 0
        /\ admin[r].last.op = "getitem"

\* C6: admin[n] returns the child registered under n, that very object, and
\* raises KeyError when n is not registered; children is left unchanged.
C6_GetItem ==
    [][\A r \in AdminRequests :
          (admin'[r].nops # admin[r].nops /\ admin'[r].last.op = "getitem") =>
              /\ admin'[r].children = admin[r].children
              /\ IF admin'[r].last.name \in DOMAIN admin[r].children
                 THEN /\ admin'[r].last.kind = "value"
                      /\ admin'[r].last.child = admin[r].children[admin'[r].last.name]
                      /\ admin'[r].last.child.owner = r
                 ELSE /\ admin'[r].last.kind = "KeyError"
                      /\ admin'[r].last.child = NoChild]_vars

C6_Witness ==
    \E r, q \in AdminRequests :
        /\ r # q
        /\ admin[r].last.op = "getitem" /\ admin[r].last.kind = "value"
        /\ admin[q].last.op = "getitem" /\ admin[q].last.kind = "KeyError"

\* C9: get_admin_object_url returns None for obj None without resolving a
\* resource, and for every other obj with a registered admin resolves that
\* resource and returns its URL.
C9_Claimed ==
    \A r \in AdminRequests :
        admin[r].last.op = "get_admin_object_url" =>
            /\ admin[r].last.obj.none =>
                  (admin[r].last.kind = "None" /\ ~admin[r].last.resolved)
            /\ (~admin[r].last.obj.none /\ admin[r].last.obj.model \in DOMAIN admin[r].children) =>
                  /\ admin[r].last.kind = "url"
                  /\ admin[r].last.resolved
                  /\ admin[r].last.child = admin[r].children[admin[r].last.obj.model]

RefIntegrity ==
    \A k \in DOMAIN usergroup :
        /\ usergroup[k].user_id # 0 => usergroup[k].user_id \in users
        /\ usergroup[k].group_id # 0 => usergroup[k].group_id \in groups

\* C10: no usergroup row references a user or group that does not exist, and
\* after a user is deleted no usergroup row with that user's id remains.
C10_Cascade ==
    /\ RefIntegrity
    /\ (dbop.op = "delete_user" /\ dbop.ok) => Referencing("user_id", dbop.id) = {}

C10_Witness ==
    /\ dbop.op = "delete_user"
    /\ dbop.cascaded > 0
    /\ DOMAIN usergroup # {}

====
